---- MODULE Spec2Model ----
\* Cache-aside OAuth decorator (oauth-cache.js): an expiring key-value store,
\* an asynchronous authorization target, and the decorator's operations as
\* callback-driven handlers.  Every call keeps a log of what it did to the
\* store, to the target and to its caller's callback.
EXTENDS Integers, Sequences, FiniteSets, TLC

VARIABLES
  store,    \* the key-value store: key -> [value, at, ttl]
  now,      \* the clock, in milliseconds
  call,     \* the calls: position, operation, arguments, log
  prev      \* the token of the invalidateToken that was the last operation begun

vars == <<store, now, call, prev>>

----------------------------------------------------------------------------
\* Bounds and inputs

MaxTime == 3000                 \* the clock stops here (milliseconds)
CacheTtl == 2000                \* this.cache.options.ttl, the store's ceiling (ms)
MsPerSec == 1000                \* the literal 1000 of cacheToken / getCachedToken
TickMs == MsPerSec              \* granularity of the modelled clock

Calls == {"c1", "c2"}           \* call slots
Serial == {"c1"}                \* the slot used when calls run one after another

ApiKeyPrefix == "apiKey:"
ApiKeys == {"k1"}
Tokens == {"t1", "apiKey:k1"}   \* access-token strings seen by callers and targets
Requests == {"req1"}

\* scope strings are sequences of characters
ScopeR == <<"r">>
ScopeRW == <<"r", " ", "w">>
ScopeW == <<"w">>

\* JavaScript values: objects are functions over their field names
Undefined == [t |-> "undefined"]
Null == [t |-> "null"]
Obj(r) == [t |-> "obj", v |-> r]
Str(s) == [t |-> "str", v |-> s]
Bool(b) == [t |-> "bool", v |-> b]
EmptyObj == [f \in {} |-> 0]
NaN == "NaN"

\* errors are objects with a message; the absent error is null
Err(msg) == [message |-> msg]
NoErr == Null
IsErr(e) == "message" \in DOMAIN e

\* requiredScopes as callers give them: null, a collection, or a string
RequiredScopes ==
  { [k |-> "null"],
    [k |-> "array", v |-> <<>>],
    [k |-> "array", v |-> <<ScopeR, ScopeW>>],
    [k |-> "string", v |-> <<>>],
    [k |-> "string", v |-> ScopeR],
    [k |-> "string", v |-> ScopeRW] }

\* what a target may answer to a token-issuing call
IssueReplies ==
  { Obj([access_token |-> "t1", expires_in |-> 3, scope |-> ScopeR]),
    Obj([access_token |-> "t1", expires_in |-> 1, scope |-> ScopeRW]),
    Obj([access_token |-> "t1", expires_in |-> 0]),
    Obj([access_token |-> "t1"]),
    Obj([access_token |-> "apiKey:k1", expires_in |-> 1]),
    Obj([expires_in |-> 3]),
    Obj([access_token |-> "", expires_in |-> 3]),
    Str("redirect?code=x") }

\* what a target may answer to verifyToken (it need not echo the token)
VerifyReplies ==
  { Obj([expires_in |-> 3, scope |-> ScopeR]),
    Obj([expires_in |-> 1, scope |-> ScopeRW]),
    Obj([expires_in |-> 0]),
    Obj(EmptyObj) }

TargetErr == Err("target_error")
StoreErr == Err("store_error")
SetThrew == Err("set_exception")
ParseErr == Err("SyntaxError")
TypeErr == Err("TypeError")

----------------------------------------------------------------------------
\* Objects

Has(r, f) == f \in DOMAIN r
Put(r, f, x) == [k \in DOMAIN r \cup {f} |-> IF k = f THEN x ELSE r[k]]
Del(r, f) == [k \in DOMAIN r \ {f} |-> r[k]]
Min(a, b) == IF a < b THEN a ELSE b

\* truthiness of a field: a missing field, "" and 0 are falsy
StringTruthy(r, f) == Has(r, f) /\ r[f] # ""
NumberTruthy(r, f) == Has(r, f) /\ r[f] # 0
CharsTruthy(r, f) == Has(r, f) /\ r[f] # <<>>
\* truthiness of a value
Truthy(x) ==
  CASE x.t = "undefined" -> FALSE
    [] x.t = "null" -> FALSE
    [] x.t = "bool" -> x.v
    [] x.t = "str" -> x.v # ""
    [] x.t = "obj" -> TRUE

\* JSON.stringify of an object, and JSON.parse of a stored string: text that
\* was not produced by stringify (a raw API key) does not parse
Stringify(r) == [json |-> r]
Parses(text) == Has(text, "json")
Parse(text) == text.json
Raw(s) == [raw |-> s]

\* Url.parse of a string: an object describing the URL, with no access_token
UrlParse(s) == [href |-> s]

----------------------------------------------------------------------------
\* The expiring key-value store: set(key, value, opts), get(key), delete(key).
\* An entry set without opts.ttl lives for the store's own ttl.

StoreSet(st, key, value, opts, t) ==
  Put(st, key,
      IF Has(opts, "ttl") THEN [value |-> value, at |-> t, ttl |-> opts.ttl]
                          ELSE [value |-> value, at |-> t])
Lifetime(e) == IF Has(e, "ttl") THEN e.ttl ELSE CacheTtl
Live(st, key, t) == Has(st, key) /\ t - st[key].at < Lifetime(st[key])
StoreGet(st, key, t) == IF Live(st, key, t) THEN st[key].value ELSE Undefined
StoreDelete(st, key) == Del(st, key)
Evict(st, t) == [k \in {x \in DOMAIN st : Live(st, x, t)} |-> st[k]]
IsHit(reply) == ~Has(reply, "t")

----------------------------------------------------------------------------
\* What a call does, in order: entries of its log

GetEv(key) == [e |-> "get", key |-> key]
SetEv(key, opts) == [e |-> "set", key |-> key, opts |-> opts]
SetThrowEv(key) == [e |-> "set_throws", key |-> key]
DeleteEv(key) == [e |-> "delete", key |-> key]
TargetEv(op, args) == [e |-> "target", op |-> op, args |-> args]
GotEv(err, reply) == [e |-> "got", err |-> err, hit |-> IsHit(reply), value |-> reply]
AnswerEv(err, res) == [e |-> "answer", err |-> err, res |-> res]
Cb(err, res) == [e |-> "cb", err |-> err, res |-> res]
ThrowEv(err) == [e |-> "throw", err |-> err]

----------------------------------------------------------------------------
\* The decorator's helpers

\* the store key of a token given as a string, and of an API key
TokenKey(token) == token
ApiKeyKey(apiKey) == ApiKeyPrefix \o apiKey

\* opts of cacheToken: null, or { ttl: Math.min(expires_in * 1000, options.ttl) }
TtlOpts(token) ==
  IF NumberTruthy(token, "expires_in")
  THEN [ttl |-> Min(token.expires_in * MsPerSec, CacheTtl)]
  ELSE Null

\* cacheToken that tests for the presence of access_token, not its truth: an
\* empty access_token is cached under the empty key
CacheTokenStoreAnyToken(st, t, err, token, throws) ==
  LET result == token
      parsed == IF token.t = "str" THEN UrlParse(token.v) ELSE token.v
  IN IF ~Has(parsed, "access_token")
     THEN [st |-> st, ev |-> <<Cb(err, result)>>]
     ELSE
       LET key == parsed.access_token
           stamped == Put(parsed, "cached_at", t)
           target == Stringify(stamped)
           opts == TtlOpts(stamped)
       IN IF throws
          THEN [st |-> st, ev |-> <<SetThrowEv(key), Cb(SetThrew, Undefined)>>]
          ELSE [st |-> StoreSet(st, key, target, opts, t),
                ev |-> <<SetEv(key, opts), Cb(NoErr, Obj(stamped))>>]

\* cacheToken past its error check: parse a string token, pass a token with
\* no access_token through, otherwise stamp, serialize, store and call back.
\* token.cached_at is written into the caller's object, so the result handed
\* to cb is the stamped object.  throws: whether cache.set throws.
CacheTokenStore(st, t, err, token, throws) ==
  LET result == token
      parsed == IF token.t = "str" THEN UrlParse(token.v) ELSE token.v
  IN IF ~StringTruthy(parsed, "access_token")
     THEN [st |-> st, ev |-> <<Cb(err, result)>>]
     ELSE
       LET key == parsed.access_token
           stamped == Put(parsed, "cached_at", t)
           target == Stringify(stamped)
           opts == TtlOpts(stamped)
       IN IF throws
          THEN [st |-> st, ev |-> <<SetThrowEv(key), Cb(SetThrew, Undefined)>>]
          ELSE [st |-> StoreSet(st, key, target, opts, t),
                ev |-> <<SetEv(key, opts), Cb(NoErr, Obj(stamped))>>]

\* cacheToken whose error branch lacks its return: cb(err) is followed by the
\* rest of the body, which fails on the missing token and reaches the catch
CacheTokenNoReturn(st, t, err, token, throws) ==
  IF IsErr(err) THEN [st |-> st, ev |-> <<Cb(err, Undefined), Cb(TypeErr, Undefined)>>]
  ELSE CacheTokenStore(st, t, err, token, throws)

\* cacheToken that leaves an entry already stored under the key as it is
\* (first write wins)
CacheTokenKeepsFirst(st, t, err, token, throws) ==
  IF IsErr(err) THEN [st |-> st, ev |-> <<Cb(err, Undefined)>>]
  ELSE LET r == CacheTokenStore(st, t, err, token, throws)
       IN IF token.t = "obj" /\ StringTruthy(token.v, "access_token")
             /\ Has(st, token.v.access_token)
          THEN [st |-> st, ev |-> r.ev]
          ELSE r

\* cacheToken(err, token, cb) at time t: the store it leaves and what it does
CacheToken(st, t, err, token, throws) ==
  IF IsErr(err) THEN [st |-> st, ev |-> <<Cb(err, Undefined)>>]
  ELSE CacheTokenStore(st, t, err, token, throws)

\* cacheApiKey whose catch logs the exception and reports the key as cached
CacheApiKeySwallows(st, t, apiKey, throws) ==
  LET key == ApiKeyKey(apiKey)
  IN IF throws
     THEN [st |-> st, ev |-> <<SetThrowEv(key)>>, err |-> NoErr, res |-> Str(apiKey)]
     ELSE [st |-> StoreSet(st, key, Raw(apiKey), Null, t),
           ev |-> <<SetEv(key, Null)>>, err |-> NoErr, res |-> Str(apiKey)]

\* cacheApiKey(apiKey, cb): cb here is given as the pair it is called with
CacheApiKey(st, t, apiKey, throws) ==
  LET key == ApiKeyKey(apiKey)
  IN IF throws
     THEN [st |-> st, ev |-> <<SetThrowEv(key)>>, err |-> SetThrew, res |-> Undefined]
     ELSE [st |-> StoreSet(st, key, Raw(apiKey), Null, t),
           ev |-> <<SetEv(key, Null)>>, err |-> NoErr, res |-> Str(apiKey)]

\* expires_in returned as it was cached
ResidualStale(token, t) ==
  IF Has(token, "expires_in") THEN token.expires_in ELSE NaN

\* expires_in of a cache hit: expires_in - (now - cached_at) / 1000
Residual(token, t) ==
  IF Has(token, "expires_in") /\ Has(token, "cached_at")
  THEN token.expires_in - ((t - token.cached_at) \div MsPerSec)
  ELSE NaN

\* deleteCachedToken that always keys by token.access_token: for a token given
\* as a string the key is undefined and nothing is deleted
DeleteCachedTokenByField(st, token) == st

\* deleteCachedToken(token): the store it leaves
DeleteCachedToken(st, token) == StoreDelete(st, TokenKey(token))

\* the callback getCachedToken gives to cache.get, called with (serr, reply):
\* what getCachedToken's cb receives, and the exception that escapes (if any)
GetCachedTokenReply(serr, reply, t) ==
  IF IsErr(serr) THEN [err |-> serr, res |-> Undefined, threw |-> <<>>]
  ELSE IF ~IsHit(reply) THEN [err |-> serr, res |-> Undefined, threw |-> <<>>]
  ELSE IF ~Parses(reply)
       THEN [err |-> ParseErr, res |-> Null, threw |-> <<ThrowEv(TypeErr)>>]
  ELSE LET token == Parse(reply)
           updated == Put(token, "expires_in", Residual(token, t))
       IN [err |-> serr, res |-> Obj(Del(updated, "cached_at")), threw |-> <<>>]

\* the callback without its "if (err) { return cb(err); }": a failed read is
\* reported as a miss
GetCachedApiKeyReplyDropsErr(serr, reply, apiKey) ==
  IF IsErr(serr) \/ ~IsHit(reply) THEN [err |-> Undefined, res |-> Undefined]
  ELSE [err |-> serr, res |-> Str(apiKey)]

\* the callback getCachedApiKey gives to cache.get
GetCachedApiKeyReply(serr, reply, apiKey) ==
  IF IsErr(serr) THEN [err |-> serr, res |-> Undefined]
  ELSE IF ~IsHit(reply) THEN [err |-> Undefined, res |-> Undefined]
  ELSE [err |-> serr, res |-> Str(apiKey)]

\* String.prototype.split(' ')
RECURSIVE Split(_)
Split(s) ==
  IF \A i \in 1..Len(s) : s[i] # " " THEN <<s>>
  ELSE LET i == CHOOSE j \in 1..Len(s) :
                  s[j] = " " /\ \A m \in 1..(j - 1) : s[m] # " "
       IN <<SubSeq(s, 1, i - 1)>> \o Split(SubSeq(s, i + 1, Len(s)))

\* _.difference(a, b): the members of a that are not in b, in order
Difference(a, b) == SelectSeq(a, LAMBDA x : \A i \in 1..Len(b) : b[i] # x)

RequiredTruthy(rs) == rs.k = "array" \/ (rs.k = "string" /\ rs.v # <<>>)
RequiredList(rs) == IF rs.k = "array" THEN rs.v ELSE Split(rs.v)
GrantedScopes(reply) == IF CharsTruthy(reply, "scope") THEN Split(reply.scope) ELSE <<>>

\* errorWithCode(code)
ErrorWithCode(code) == [message |-> code, errorCode |-> code]

\* the hit branch with the difference taken the wrong way round
VerifyCachedSwapped(reply, rs) ==
  IF RequiredTruthy(rs)
     /\ Len(Difference(GrantedScopes(reply.v), RequiredList(rs))) > 0
  THEN Cb(ErrorWithCode("invalid_scope"), Undefined)
  ELSE Cb(NoErr, reply)

\* the hit branch of verifyToken: what cb is called with
VerifyCached(reply, rs) ==
  IF RequiredTruthy(rs)
     /\ Len(Difference(RequiredList(rs), GrantedScopes(reply.v))) > 0
  THEN Cb(ErrorWithCode("invalid_scope"), Undefined)
  ELSE Cb(NoErr, reply)

----------------------------------------------------------------------------
\* State: the store, the clock, and the calls in flight

Idle == [pc |-> "idle", op |-> "none", args |-> EmptyObj, log |-> <<>>, after |-> Null]

Init ==
  /\ store = EmptyObj
  /\ now = 0
  /\ call = [c \in Calls |-> Idle]
  /\ prev = Null

\* call c, idle, becomes operation op with args; it has done ev and waits at pc
Begin(c, op, args, ev, pc) ==
  /\ call[c].pc = "idle"
  /\ call' = [call EXCEPT ![c] = [pc |-> pc, op |-> op, args |-> args, log |-> ev,
                                   after |-> prev]]
  /\ prev' = IF op = "invalidateToken"
             THEN [token |-> args.token, cached |-> Live(store, args.token, now)]
             ELSE Null

\* call c, waiting at pc `at' in operation op, does ev and moves to pc
Waiting(c, op, at) == call[c].pc = at /\ call[c].op = op
Step(c, ev, pc) ==
  /\ call' = [call EXCEPT ![c].log = @ \o ev, ![c].pc = pc]
  /\ UNCHANGED prev

StoreErrors == {NoErr, StoreErr}
TargetErrors == {NoErr, TargetErr}
\* (error, result) pairs a target may call back with
Answers(replies) ==
  {[err |-> TargetErr, res |-> Undefined]} \cup {[err |-> NoErr, res |-> r] : r \in replies}

\* the four token grants and refreshToken: delegate, then cacheToken
IssuingOps ==
  { "createTokenClientCredentials", "createTokenPasswordCredentials",
    "createTokenAuthorizationCode", "createTokenImplicitGrant", "refreshToken" }

Issue(c, op) ==
  /\ Begin(c, op, EmptyObj, <<TargetEv(op, <<>>)>>, "target")
  /\ UNCHANGED <<store, now>>

createTokenClientCredentials(c) == Issue(c, "createTokenClientCredentials")
createTokenPasswordCredentials(c) == Issue(c, "createTokenPasswordCredentials")
createTokenAuthorizationCode(c) == Issue(c, "createTokenAuthorizationCode")
createTokenImplicitGrant(c) == Issue(c, "createTokenImplicitGrant")
refreshToken(c) == Issue(c, "refreshToken")

\* the target answers a token-issuing call: self.cacheToken(err, reply, cb)
IssueReply(c) ==
  /\ call[c].pc = "target" /\ call[c].op \in IssuingOps
  /\ \E a \in Answers(IssueReplies), throws \in BOOLEAN :
       LET r == CacheToken(store, now, a.err, a.res, throws)
       IN /\ Step(c, <<AnswerEv(a.err, a.res)>> \o r.ev, "done")
          /\ store' = r.st
  /\ UNCHANGED now

generateAuthorizationCode(c) ==
  /\ Begin(c, "generateAuthorizationCode", EmptyObj,
           <<TargetEv("generateAuthorizationCode", <<>>)>>, "target")
  /\ UNCHANGED <<store, now>>

\* cb was handed to the target, which calls it
generateAuthorizationCodeReply(c) ==
  /\ Waiting(c, "generateAuthorizationCode", "target")
  /\ \E a \in Answers({Str("redirect?code=x")}) :
       Step(c, <<AnswerEv(a.err, a.res), Cb(a.err, a.res)>>, "done")
  /\ UNCHANGED <<store, now>>

invalidateToken(c, token) ==
  /\ Begin(c, "invalidateToken", [token |-> token],
           <<DeleteEv(TokenKey(token)),
             TargetEv("invalidateToken", <<token>>)>>, "target")
  /\ store' = DeleteCachedToken(store, token)
  /\ UNCHANGED now

invalidateTokenReply(c) ==
  /\ Waiting(c, "invalidateToken", "target")
  /\ \E a \in Answers({Undefined}) :
       Step(c, <<AnswerEv(a.err, a.res), Cb(a.err, a.res)>>, "done")
  /\ UNCHANGED <<store, now>>

\* cache.get(key, ...) answers with an error, or with what it holds now
StoreAnswers(key) ==
  {[err |-> StoreErr, reply |-> Undefined],
   [err |-> NoErr, reply |-> StoreGet(store, key, now)]}

getCachedToken(c, token) ==
  /\ Begin(c, "getCachedToken", [token |-> token], <<GetEv(TokenKey(token))>>, "get")
  /\ UNCHANGED <<store, now>>

\* getCachedToken whose hit writes the entry back (a read that renews the
\* entry's lifetime)
getCachedTokenReplyRenews(c) ==
  /\ Waiting(c, "getCachedToken", "get")
  /\ \E s \in StoreAnswers(TokenKey(call[c].args.token)) :
       LET d == GetCachedTokenReply(s.err, s.reply, now)
       IN /\ Step(c, <<GotEv(s.err, s.reply), Cb(d.err, d.res)>> \o d.threw, "done")
          /\ store' = IF ~IsErr(s.err) /\ IsHit(s.reply)
                      THEN StoreSet(store, TokenKey(call[c].args.token),
                                    s.reply, Null, now)
                      ELSE store
  /\ UNCHANGED now

getCachedTokenReply(c) ==
  /\ Waiting(c, "getCachedToken", "get")
  /\ \E s \in StoreAnswers(TokenKey(call[c].args.token)) :
       LET d == GetCachedTokenReply(s.err, s.reply, now)
       IN Step(c, <<GotEv(s.err, s.reply), Cb(d.err, d.res)>> \o d.threw, "done")
  /\ UNCHANGED <<store, now>>

verifyToken(c, token, requiredScopes) ==
  /\ Begin(c, "verifyToken", [token |-> token, requiredScopes |-> requiredScopes],
           <<GetEv(TokenKey(token))>>, "get")
  /\ UNCHANGED <<store, now>>

\* the callback whose miss branch neither asks the target nor calls back
VerifyTokenCachedDropsMiss(c, s, d) ==
  IF Truthy(d.res)
  THEN Step(c, <<GotEv(s.err, s.reply),
                 VerifyCached(d.res, call[c].args.requiredScopes)>>, "done")
  ELSE Step(c, <<GotEv(s.err, s.reply)>> \o d.threw, "lost")

\* the callback verifyToken gives to getCachedToken: (err, reply)
VerifyTokenCached(c, s, d) ==
  IF Truthy(d.res)
  THEN Step(c, <<GotEv(s.err, s.reply),
                 VerifyCached(d.res, call[c].args.requiredScopes)>>, "done")
  ELSE Step(c, <<GotEv(s.err, s.reply),
                 TargetEv("verifyToken",
                          <<call[c].args.token, call[c].args.requiredScopes>>)>>
               \o d.threw, "target")

verifyTokenCached(c) ==
  /\ Waiting(c, "verifyToken", "get")
  /\ \E s \in StoreAnswers(TokenKey(call[c].args.token)) :
       VerifyTokenCached(c, s, GetCachedTokenReply(s.err, s.reply, now))
  /\ UNCHANGED <<store, now>>

\* the target's reply cached as it came, without reply.access_token = token
VerifyTokenTargetUnstamped(st, t, token, a, throws) ==
  IF IsErr(a.err) THEN [st |-> st, ev |-> <<Cb(a.err, Undefined)>>]
  ELSE CacheToken(st, t, a.err, a.res, throws)

\* the callback verifyToken gives to the target's verifyToken
VerifyTokenTarget(st, t, token, a, throws) ==
  IF IsErr(a.err) THEN [st |-> st, ev |-> <<Cb(a.err, Undefined)>>]
  ELSE CacheToken(st, t, a.err, Obj(Put(a.res.v, "access_token", token)), throws)

verifyTokenReply(c) ==
  /\ Waiting(c, "verifyToken", "target")
  /\ \E a \in Answers(VerifyReplies), throws \in BOOLEAN :
       LET r == VerifyTokenTarget(store, now, call[c].args.token, a, throws)
       IN /\ Step(c, <<AnswerEv(a.err, a.res)>> \o r.ev, "done")
          /\ store' = r.st
  /\ UNCHANGED now

getCachedApiKey(c, apiKey) ==
  /\ Begin(c, "getCachedApiKey", [apiKey |-> apiKey], <<GetEv(ApiKeyKey(apiKey))>>, "get")
  /\ UNCHANGED <<store, now>>

getCachedApiKeyReply(c) ==
  /\ Waiting(c, "getCachedApiKey", "get")
  /\ \E s \in StoreAnswers(ApiKeyKey(call[c].args.apiKey)) :
       LET d == GetCachedApiKeyReply(s.err, s.reply, call[c].args.apiKey)
       IN Step(c, <<GotEv(s.err, s.reply), Cb(d.err, d.res)>>, "done")
  /\ UNCHANGED <<store, now>>

verifyApiKey(c, apiKey, request) ==
  /\ Begin(c, "verifyApiKey", [apiKey |-> apiKey, request |-> request],
           <<GetEv(ApiKeyKey(apiKey))>>, "get")
  /\ UNCHANGED <<store, now>>

\* the callback with "if (err)" in place of "if (err || reply)"
VerifyApiKeyCachedErrOnly(c, s, d) ==
  IF IsErr(d.err)
  THEN Step(c, <<GotEv(s.err, s.reply), Cb(d.err, Bool(Truthy(d.res)))>>, "done")
  ELSE Step(c, <<GotEv(s.err, s.reply),
                 TargetEv("verifyApiKey",
                          <<call[c].args.apiKey, call[c].args.request>>)>>, "target")

\* the callback verifyApiKey gives to getCachedApiKey: (err, reply)
VerifyApiKeyCached(c, s, d) ==
  IF IsErr(d.err) \/ Truthy(d.res)
  THEN Step(c, <<GotEv(s.err, s.reply), Cb(d.err, Bool(Truthy(d.res)))>>, "done")
  ELSE Step(c, <<GotEv(s.err, s.reply),
                 TargetEv("verifyApiKey",
                          <<call[c].args.apiKey, call[c].args.request>>)>>, "target")

verifyApiKeyCached(c) ==
  /\ Waiting(c, "verifyApiKey", "get")
  /\ \E s \in StoreAnswers(ApiKeyKey(call[c].args.apiKey)) :
       VerifyApiKeyCached(c, s, GetCachedApiKeyReply(s.err, s.reply, call[c].args.apiKey))
  /\ UNCHANGED <<store, now>>

\* the callback without its "if (err) { return cb(err); }"
VerifyApiKeyTargetIgnoresErr(st, t, apiKey, err, throws) ==
  LET r == CacheApiKey(st, t, apiKey, throws)
  IN [st |-> r.st,
      ev |-> r.ev \o <<IF IsErr(r.err) THEN Cb(r.err, Undefined)
                                        ELSE Cb(Null, Bool(Truthy(r.res)))>>]

\* the callback verifyApiKey gives to the target's verifyApiKey: (err)
VerifyApiKeyTarget(st, t, apiKey, err, throws) ==
  IF IsErr(err) THEN [st |-> st, ev |-> <<Cb(err, Undefined)>>]
  ELSE LET r == CacheApiKey(st, t, apiKey, throws)
       IN [st |-> r.st,
           ev |-> r.ev \o <<IF IsErr(r.err) THEN Cb(r.err, Undefined)
                                             ELSE Cb(Null, Bool(Truthy(r.res)))>>]

verifyApiKeyReply(c) ==
  /\ Waiting(c, "verifyApiKey", "target")
  /\ \E a \in Answers({Undefined}), throws \in BOOLEAN :
       LET r == VerifyApiKeyTarget(store, now, call[c].args.apiKey, a.err, throws)
       IN /\ Step(c, <<AnswerEv(a.err, a.res)>> \o r.ev, "done")
          /\ store' = r.st
  /\ UNCHANGED now

\* cacheToken and cacheApiKey called directly: they finish within the call
cacheToken(c, err, token) ==
  /\ \E throws \in BOOLEAN :
       LET r == CacheToken(store, now, err, token, throws)
       IN /\ Begin(c, "cacheToken", [err |-> err, token |-> token], r.ev, "done")
          /\ store' = r.st
  /\ UNCHANGED now

cacheApiKey(c, apiKey) ==
  /\ \E throws \in BOOLEAN :
       LET r == CacheApiKey(store, now, apiKey, throws)
       IN /\ Begin(c, "cacheApiKey", [apiKey |-> apiKey],
                   r.ev \o <<Cb(r.err, r.res)>>, "done")
          /\ store' = r.st
  /\ UNCHANGED now

\* the caller has its answer; the slot is free for the next operation
Return(c) ==
  /\ call[c].pc = "done"
  /\ call' = [call EXCEPT ![c] = Idle]
  /\ UNCHANGED <<store, now, prev>>

\* time passes; the store drops the entries whose ttl has elapsed
Tick ==
  /\ now + TickMs <= MaxTime
  /\ now' = now + TickMs
  /\ store' = Evict(store, now')
  /\ UNCHANGED <<call, prev>>

Next ==
  \/ \E c \in Serial : createTokenClientCredentials(c)
  \/ \E c \in Serial : createTokenPasswordCredentials(c)
  \/ \E c \in Serial : createTokenAuthorizationCode(c)
  \/ \E c \in Serial : createTokenImplicitGrant(c)
  \/ \E c \in Serial : refreshToken(c)
  \/ \E c \in Serial : IssueReply(c)
  \/ \E c \in Serial : generateAuthorizationCode(c)
  \/ \E c \in Serial : generateAuthorizationCodeReply(c)
  \/ \E c \in Serial, token \in Tokens : invalidateToken(c, token)
  \/ \E c \in Serial : invalidateTokenReply(c)
  \/ \E c \in Serial, token \in Tokens : getCachedToken(c, token)
  \/ \E c \in Serial : getCachedTokenReply(c)
  \/ \E c \in Serial, token \in Tokens, rs \in RequiredScopes : verifyToken(c, token, rs)
  \/ \E c \in Serial : verifyTokenCached(c)
  \/ \E c \in Serial : verifyTokenReply(c)
  \/ \E c \in Serial, apiKey \in ApiKeys : getCachedApiKey(c, apiKey)
  \/ \E c \in Serial : getCachedApiKeyReply(c)
  \/ \E c \in Serial, apiKey \in ApiKeys, request \in Requests :
        verifyApiKey(c, apiKey, request)
  \/ \E c \in Serial : verifyApiKeyCached(c)
  \/ \E c \in Serial : verifyApiKeyReply(c)
  \/ \E c \in Serial, a \in Answers(IssueReplies) : cacheToken(c, a.err, a.res)
  \/ \E c \in Serial, apiKey \in ApiKeys : cacheApiKey(c, apiKey)
  \/ \E c \in Serial : Return(c)
  \/ Tick

Spec == Init /\ [][Next]_vars

\* The store and the target call back every call made to them: a call that
\* waits for one of them is eventually answered
SpecLive ==
  /\ Init /\ [][Next]_vars
  /\ \A c \in Serial :
       /\ WF_vars(IssueReply(c))
       /\ WF_vars(generateAuthorizationCodeReply(c))
       /\ WF_vars(invalidateTokenReply(c))
       /\ WF_vars(getCachedTokenReply(c))
       /\ WF_vars(verifyTokenCached(c))
       /\ WF_vars(verifyTokenReply(c))
       /\ WF_vars(getCachedApiKeyReply(c))
       /\ WF_vars(verifyApiKeyCached(c))
       /\ WF_vars(verifyApiKeyReply(c))

\* Interleaved calls: verifications and invalidations of one token overlap at
\* the points where they wait for the store or the target
RaceTokens == {"t1"}
RaceScopes == {[k |-> "null"], [k |-> "string", v |-> ScopeRW]}

NextRace ==
  \/ \E c \in Calls, token \in RaceTokens : invalidateToken(c, token)
  \/ \E c \in Calls : invalidateTokenReply(c)
  \/ \E c \in Calls, token \in RaceTokens, rs \in RaceScopes : verifyToken(c, token, rs)
  \/ \E c \in Calls : verifyTokenCached(c)
  \/ \E c \in Calls : verifyTokenReply(c)
  \/ \E c \in Calls : Return(c)
  \/ Tick

SpecRace == Init /\ [][NextRace]_vars

----------------------------------------------------------------------------
\* Reading a call's log

Sel(c, kind) == SelectSeq(call[c].log, LAMBDA x : x.e = kind)
Did(c, kind) == Len(Sel(c, kind)) > 0
Done(c) == call[c].pc = "done"
TheCb(c) == Sel(c, "cb")[1]
Got(c) == Sel(c, "got")[1]
Answer(c) == Sel(c, "answer")[1]
\* position of the first entry of a kind in the log (0 if none)
Pos(c, kind) ==
  IF Did(c, kind)
  THEN CHOOSE i \in 1..Len(call[c].log) :
         call[c].log[i].e = kind /\ \A j \in 1..(i - 1) : call[c].log[j].e # kind
  ELSE 0
\* the store answered the call's get with a token record
TokenHit(c) ==
  Did(c, "got") /\ ~IsErr(Got(c).err) /\ Got(c).hit /\ Parses(Got(c).value)

\* the scopes a space-separated string names: its maximal space-free pieces
ScopeWords(s) ==
  LET n == Len(s)
      Delim(p) == p = 0 \/ p = n + 1 \/ s[p] = " "
  IN { SubSeq(s, a + 1, b - 1) :
         <<a, b>> \in { x \in (0..n) \X (1..(n + 1)) :
                          /\ x[1] < x[2] /\ Delim(x[1]) /\ Delim(x[2])
                          /\ \A m \in (x[1] + 1)..(x[2] - 1) : ~Delim(m) } }
Range(q) == { q[i] : i \in 1..Len(q) }

----------------------------------------------------------------------------
\* C1: every operation calls its caller's callback exactly once: never before
\* it is finished, once when it has finished, and never a second time,
\* whatever the store (hit, miss, error, set throwing) and the target answer.
ExactlyOneCallback ==
  \A c \in Calls :
    /\ Len(Sel(c, "cb")) <= 1
    /\ Done(c) => Len(Sel(c, "cb")) = 1
    /\ call[c].pc \in {"get", "target"} => Len(Sel(c, "cb")) = 0

\* a verifyApiKey whose store write threw has called back once
OneCallbackAfterSetThrows ==
  \E c \in Calls :
    /\ Done(c) /\ call[c].op = "verifyApiKey"
    /\ Did(c, "set_throws") /\ Len(Sel(c, "cb")) = 1

\* C2: a verifyToken that found the token's record in the cache does not call
\* the target; it succeeds with the cached token when requiredScopes is null or
\* empty or when every required scope is among the scopes of the record's
\* scope field, and fails with an error whose errorCode is invalid_scope
\* otherwise.
RequiredSet(rs) ==
  CASE rs.k = "null" -> {}
    [] rs.k = "array" -> Range(rs.v)
    [] rs.k = "string" -> IF rs.v = <<>> THEN {} ELSE ScopeWords(rs.v)
GrantedSet(rec) ==
  IF Has(rec, "scope") /\ rec.scope # <<>> THEN ScopeWords(rec.scope) ELSE {}
CachedHitDecidesAlone ==
  \A c \in Calls :
    (Done(c) /\ call[c].op = "verifyToken" /\ TokenHit(c)) =>
      LET rec == Parse(Got(c).value)
          cb == TheCb(c)
      IN /\ ~Did(c, "target")
         /\ IF RequiredSet(call[c].args.requiredScopes) \subseteq GrantedSet(rec)
            THEN /\ ~IsErr(cb.err)
                 /\ cb.res.t = "obj"
                 /\ \A f \in DOMAIN rec \ {"expires_in", "cached_at"} :
                      Has(cb.res.v, f) /\ cb.res.v[f] = rec[f]
            ELSE /\ IsErr(cb.err)
                 /\ Has(cb.err, "errorCode") /\ cb.err.errorCode = "invalid_scope"

\* a cached token granted only "r" was refused to a caller requiring "r w"
CachedHitRefused ==
  \E c \in Calls :
    /\ Done(c) /\ call[c].op = "verifyToken" /\ TokenHit(c)
    /\ call[c].args.requiredScopes = [k |-> "string", v |-> ScopeRW]
    /\ Has(Parse(Got(c).value), "scope") /\ Parse(Got(c).value).scope = ScopeR
    /\ IsErr(TheCb(c).err)

\* C3: invalidateToken({token: T}) has deleted the store entry of T by the time
\* it has dispatched the target's invalidateToken (the delete comes first), and
\* a verifyToken(T) that is the next operation begun does not get a cache hit:
\* it goes to the target.
InvalidateThenVerifyMisses ==
  /\ [][\A c \in Calls :
          (call[c].pc = "idle" /\ call'[c].op = "invalidateToken") =>
            LET log == call'[c].log
            IN /\ ~Has(store', call'[c].args.token)
               /\ \E i, j \in 1..Len(log) :
                    i < j /\ log[i].e = "delete" /\ log[j].e = "target"
                    /\ log[i].key = call'[c].args.token]_vars
  /\ [](\A c \in Calls :
          (/\ call[c].op = "verifyToken"
           /\ Has(call[c].after, "token")
           /\ call[c].after.token = call[c].args.token
           /\ Did(c, "got")) =>
            (~Got(c).hit /\ Did(c, "target")))

\* a token that was cached when it was invalidated is being verified by the
\* target
InvalidatedTokenGoesToTarget ==
  \E c \in Calls :
    /\ call[c].op = "verifyToken" /\ call[c].pc = "target"
    /\ Has(call[c].after, "token")
    /\ call[c].after.token = call[c].args.token
    /\ call[c].after.cached
    /\ ~Got(c).hit

\* C4: a verifyToken(T) that does not find T's record in the cache calls the
\* target; on the target's success the record, with access_token = T, is
\* stored under key T before the caller is called back; from then on, while the
\* entry lives (it goes only by expiry or by invalidateToken(T)), a
\* verifyToken(T) that reads it is answered without the target; once it has
\* expired, verifyToken(T) misses, calls the target and stores again.
CacheAsideTokenRead ==
  /\ [](\A c \in Calls :
          call[c].op = "verifyToken" =>
            /\ (Did(c, "got") /\ ~TokenHit(c)) => Did(c, "target")
            /\ (Done(c) /\ TokenHit(c)) => ~Did(c, "target")
            /\ (Done(c) /\ Did(c, "answer") /\ ~IsErr(Answer(c).err)) =>
                 /\ Did(c, "set") \/ Did(c, "set_throws")
                 /\ Did(c, "set") =>
                      /\ Sel(c, "set")[1].key = call[c].args.token
                      /\ Pos(c, "set") < Pos(c, "cb")
                      /\ ~IsErr(TheCb(c).err)
                      /\ TheCb(c).res.v.access_token = call[c].args.token)
  /\ [][\A c \in Calls :
          (call[c].op = "verifyToken" /\ call[c].pc # "done" /\ call'[c].pc = "done") =>
            LET T == call[c].args.token
                log == call'[c].log
            IN (\E i \in 1..Len(log) : log[i].e = "set") =>
                 /\ Live(store', T, now')
                 /\ Parses(store'[T].value)
                 /\ Parse(store'[T].value).access_token = T]_vars
  /\ [][\A c \in Calls :
          (/\ call[c].op = "verifyToken" /\ call[c].pc = "get" /\ call'[c].pc # "get"
           /\ Live(store, call[c].args.token, now)
           /\ Parses(store[call[c].args.token].value)
           /\ ~IsErr(call'[c].log[2].err)) =>
            call'[c].pc = "done"]_vars
  /\ [][\A T \in Tokens :
          (Live(store, T, now) /\ ~Live(store', T, now')) =>
            \/ now' # now
            \/ \E c \in Calls :
                 /\ call[c].pc = "idle" /\ call'[c].op = "invalidateToken"
                 /\ call'[c].args.token = T]_vars

\* a verifyToken was answered from an entry cached earlier
ServedFromCacheLater ==
  \E c \in Calls :
    /\ Done(c) /\ call[c].op = "verifyToken" /\ TokenHit(c)
    /\ ~Did(c, "target") /\ ~IsErr(TheCb(c).err)
    /\ Has(store, call[c].args.token)
    /\ store[call[c].args.token].at < now

\* C5: a verifyApiKey(K, req) that finds K uncached calls the target's
\* verifyApiKey once, with K and the original request, and when the target
\* accepts stores K under "apiKey:" + K before calling back (null, true); a
\* later call that reads the live entry calls back (null, true) without the
\* target.
ApiKeyCacheAside ==
  /\ [](\A c \in Calls :
          call[c].op = "verifyApiKey" =>
            /\ Len(Sel(c, "target")) <= 1
            /\ (Did(c, "got") /\ ~IsErr(Got(c).err) /\ ~Got(c).hit) =>
                 /\ Len(Sel(c, "target")) = 1
                 /\ Sel(c, "target")[1].op = "verifyApiKey"
                 /\ Sel(c, "target")[1].args = <<call[c].args.apiKey, call[c].args.request>>
            /\ (Done(c) /\ Did(c, "answer") /\ ~IsErr(Answer(c).err)
                 /\ ~Did(c, "set_throws")) =>
                 /\ Did(c, "set")
                 /\ Sel(c, "set")[1].key = "apiKey:" \o call[c].args.apiKey
                 /\ Pos(c, "set") < Pos(c, "cb")
                 /\ ~IsErr(TheCb(c).err) /\ TheCb(c).res = Bool(TRUE)
            /\ (Done(c) /\ ~IsErr(Got(c).err) /\ Got(c).hit) =>
                 /\ ~Did(c, "target")
                 /\ ~IsErr(TheCb(c).err) /\ TheCb(c).res = Bool(TRUE))
  /\ [][\A c \in Calls :
          (call[c].op = "verifyApiKey" /\ call[c].pc # call'[c].pc) =>
            LET key == "apiKey:" \o call[c].args.apiKey
                log == call'[c].log
            IN /\ (call[c].pc = "get" /\ Live(store, key, now) /\ ~IsErr(log[2].err)) =>
                    (call'[c].pc = "done" /\ log[Len(log)] = Cb(Null, Bool(TRUE)))
               /\ (call[c].pc = "target" /\ log[Len(log)] = Cb(Null, Bool(TRUE))) =>
                    Live(store', key, now')]_vars

\* a verifyApiKey was answered from an entry cached earlier
ApiKeyServedFromCache ==
  \E c \in Calls :
    /\ Done(c) /\ call[c].op = "verifyApiKey"
    /\ ~IsErr(Got(c).err) /\ Got(c).hit /\ ~Parses(Got(c).value)
    /\ TheCb(c).res = Bool(TRUE) /\ ~Did(c, "target")
    /\ Has(store, ApiKeyKey(call[c].args.apiKey))
    /\ store[ApiKeyKey(call[c].args.apiKey)].at < now

\* C6: a token cached with expires_in = T at time t0 and read from the cache at
\* time t1 (by getCachedToken or by a verifyToken that succeeds from the
\* cache) is returned with expires_in = T - (t1 - t0) / 1000 and without a
\* cached_at field.
ResidualLifetime ==
  [][\A c \in Calls :
       (/\ call[c].pc = "get" /\ call'[c].pc # "get"
        /\ call[c].op \in {"getCachedToken", "verifyToken"}
        /\ Live(store, call[c].args.token, now)
        /\ Parses(store[call[c].args.token].value)
        /\ Has(Parse(store[call[c].args.token].value), "expires_in")
        /\ ~IsErr(call'[c].log[2].err)) =>
         LET entry == store[call[c].args.token]
             T == Parse(entry.value).expires_in
             cb == call'[c].log[Len(call'[c].log)]
         IN /\ cb.e = "cb"
            /\ call[c].op = "getCachedToken" => ~IsErr(cb.err)
            /\ ~IsErr(cb.err) =>
                 /\ cb.res.t = "obj"
                 /\ ~Has(cb.res.v, "cached_at")
                 /\ Has(cb.res.v, "expires_in")
                 /\ cb.res.v.expires_in * 1000 = T * 1000 - (now - entry.at)]_vars

\* a token cached with expires_in = 3 was returned one second later with 2
ResidualAfterOneSecond ==
  \E c \in Calls :
    /\ Done(c) /\ call[c].op = "getCachedToken" /\ TokenHit(c)
    /\ Has(Parse(Got(c).value), "expires_in")
    /\ Parse(Got(c).value).expires_in = 3
    /\ TheCb(c).res.v.expires_in = 2

\* C7: every token entry in the store whose record carries expires_in was
\* stored with ttl = min(expires_in * 1000, options.ttl), and every token entry
\* whose record has no expires_in was stored without a ttl.
TtlIsCappedLifetime ==
  \A k \in DOMAIN store :
    Parses(store[k].value) =>
      LET rec == Parse(store[k].value)
      IN IF Has(rec, "expires_in")
         THEN /\ Has(store[k], "ttl")
              /\ store[k].ttl = Min(rec.expires_in * 1000, CacheTtl)
              /\ store[k].ttl <= CacheTtl
         ELSE ~Has(store[k], "ttl")

\* what a cacheToken-routed call was given to cache
Given(c) ==
  IF call[c].op = "cacheToken"
  THEN [err |-> call[c].args.err, res |-> call[c].args.token]
  ELSE [err |-> Answer(c).err, res |-> Answer(c).res]
LacksAccessToken(res) ==
  \/ res.t = "str"
  \/ res.t = "obj" /\ (~Has(res.v, "access_token") \/ res.v.access_token = "")
PassedThrough(c) ==
  /\ Done(c) /\ call[c].op \in IssuingOps \cup {"cacheToken"}
  /\ ~IsErr(Given(c).err) /\ LacksAccessToken(Given(c).res)

\* C8, as stated: a successful target result without an access_token (or with
\* an empty one), from any operation that routes the target's result through
\* cacheToken (the token grants, refreshToken, verifyToken after a miss), is
\* handed to the caller unchanged and the store is not written.
NoAccessTokenNeverCached ==
  \A c \in Calls :
    (/\ Done(c) /\ call[c].op \in IssuingOps \cup {"verifyToken"}
     /\ Did(c, "answer")
     /\ ~IsErr(Answer(c).err) /\ LacksAccessToken(Answer(c).res)) =>
      /\ ~Did(c, "set") /\ ~Did(c, "set_throws")
      /\ ~IsErr(TheCb(c).err)
      /\ TheCb(c).res = Answer(c).res

\* C8, amended: a successful result without an access_token (or with an empty
\* one), coming from a token grant or from refreshToken, or given to
\* cacheToken, is handed to the caller as it is, with no error, and the store
\* is not written.  (verifyToken writes the verified token into the target's
\* result before cacheToken sees it.)
NoAccessTokenPassesThrough ==
  /\ [](\A c \in Calls :
          PassedThrough(c) =>
            /\ ~Did(c, "set") /\ ~Did(c, "set_throws")
            /\ Len(Sel(c, "cb")) = 1
            /\ ~IsErr(TheCb(c).err)
            /\ TheCb(c).res = Given(c).res)
  /\ [][\A c \in Calls :
          (call[c].pc # "done" /\ PassedThrough(c)') => store' = store]_vars

\* a refreshToken whose target answered with an empty access_token handed it on
EmptyAccessTokenPassed ==
  \E c \in Calls :
    /\ PassedThrough(c) /\ call[c].op = "refreshToken"
    /\ Given(c).res = Obj([access_token |-> "", expires_in |-> 3])
    /\ TheCb(c).res = Given(c).res

\* C9: when the target answers a delegated operation with an error, the caller
\* is called back with that error and the store is left as it was; after a
\* verifyToken or verifyApiKey that missed, the token or key is still uncached.
TargetFailed(c) == Done(c) /\ Did(c, "answer") /\ IsErr(Answer(c).err)
TargetErrorPropagates ==
  /\ [](\A c \in Calls :
          TargetFailed(c) =>
            /\ Len(Sel(c, "cb")) = 1
            /\ TheCb(c).err = Answer(c).err
            /\ ~Truthy(TheCb(c).res)
            /\ ~Did(c, "set") /\ ~Did(c, "set_throws"))
  /\ [][\A c \in Calls :
          (call[c].pc # "done" /\ TargetFailed(c)') =>
            /\ store' = store
            /\ (call[c].op = "verifyToken" /\ ~Got(c).hit /\ ~IsErr(Got(c).err)) =>
                 ~Live(store', call[c].args.token, now')
            /\ (call[c].op = "verifyApiKey" /\ ~Got(c).hit /\ ~IsErr(Got(c).err)) =>
                 ~Live(store', "apiKey:" \o call[c].args.apiKey, now')]_vars

\* a verifyToken that missed was refused by the target and nothing is cached
VerifyRefusedUncached ==
  \E c \in Calls :
    /\ TargetFailed(c) /\ call[c].op = "verifyToken"
    /\ ~Got(c).hit
    /\ TheCb(c).err = TargetErr
    /\ ~Has(store, call[c].args.token)

\* C10: when cache.set throws in cacheToken or cacheApiKey, no exception
\* leaves the operation: the caller is called back once, with the exception as
\* the error and without a result.
SetExceptionSurfaces ==
  \A c \in Calls :
    Did(c, "set_throws") =>
      LET log == call[c].log
          i == Pos(c, "set_throws")
      IN /\ i < Len(log)
         /\ log[i + 1].e = "cb"
         /\ log[i + 1].err = SetThrew
         /\ ~Truthy(log[i + 1].res)
         /\ \A j \in (i + 1)..Len(log) : log[j].e # "throw"
         /\ Len(Sel(c, "cb")) = 1

\* a token grant whose store write threw reported the exception
GrantReportsSetException ==
  \E c \in Calls :
    /\ Done(c) /\ call[c].op = "createTokenClientCredentials"
    /\ Did(c, "set_throws")
    /\ TheCb(c).err = SetThrew

\* C11: when the store's get answers verifyToken's read with an error, the
\* caller is called back with that store error; the call is not handed to the
\* target as if the token had not been cached.
StoreErrorReported ==
  \A c \in Calls :
    (call[c].op = "verifyToken" /\ Did(c, "got") /\ IsErr(Got(c).err)) =>
      /\ ~Did(c, "target")
      /\ Done(c)
      /\ TheCb(c).err = Got(c).err

\* C12: however invalidateToken({token: T}) and verifyToken(T) calls
\* interleave, a verifyToken(T) begun once invalidateToken has deleted T's
\* entry (and before any other operation is begun) is not answered with
\* success from the cache.
NoStaleHitAfterInvalidate ==
  \A c \in Calls :
    (/\ call[c].op = "verifyToken" /\ Done(c)
     /\ Has(call[c].after, "token")
     /\ call[c].after.token = call[c].args.token) =>
      ~(TokenHit(c) /\ ~Did(c, "target") /\ ~IsErr(TheCb(c).err))

\* C13: two verifyToken(T) calls that overlap on an uncached T may both miss and
\* both ask the target; each dispatches the target once and calls back exactly
\* once, with the target's error or with the target's result (which by then
\* carries access_token = T); each write goes to key T; no other key appears
\* in the store; and after a write the entry under T holds the record of the
\* call that wrote last, the record that call would have written alone.
RacingVerificationsHarmless ==
  /\ [](\A c \in Calls :
          (call[c].op = "verifyToken" /\ Did(c, "target")) =>
            /\ Len(Sel(c, "target")) = 1
            /\ Len(Sel(c, "cb")) = (IF Done(c) THEN 1 ELSE 0)
            /\ Done(c) =>
                 /\ IsErr(Answer(c).err) =>
                      (TheCb(c).err = Answer(c).err /\ ~Did(c, "set"))
                 /\ Did(c, "set") =>
                      /\ Len(Sel(c, "set")) = 1
                      /\ Sel(c, "set")[1].key = call[c].args.token
                      /\ TheCb(c).err = NoErr
                      /\ Del(TheCb(c).res.v, "cached_at") =
                           Put(Answer(c).res.v, "access_token", call[c].args.token))
  /\ [](DOMAIN store \subseteq RaceTokens)
  /\ [][\A c \in Calls :
          (/\ call[c].op = "verifyToken" /\ call[c].pc = "target"
           /\ \E i \in 1..Len(call'[c].log) : call'[c].log[i].e = "set") =>
            LET T == call[c].args.token
                log == call'[c].log
                a == log[Len(log) - 2]
                lone == Put(Put(a.res.v, "access_token", T), "cached_at", now)
            IN /\ a.e = "answer"
               /\ Has(store', T)
               /\ store'[T].value = Stringify(lone)
               /\ store'[T].at = now
               /\ DOMAIN store' = DOMAIN store \cup {T}]_vars

\* both calls missed at the same time, the targets answered differently, both
\* wrote, and the store holds the record of c2, which wrote last
BothMissedBothWrote ==
  /\ now = 0
  /\ \A c \in Calls :
       /\ call[c].op = "verifyToken" /\ Done(c)
       /\ ~Got(c).hit /\ Did(c, "target") /\ Did(c, "set")
  /\ Answer("c1").res # Answer("c2").res
  /\ Has(store, "t1")
  /\ Del(Parse(store["t1"].value), "cached_at") =
       Put(Answer("c2").res.v, "access_token", "t1")

\* C14: token entries and API-key entries do not collide: a verifyApiKey(K) or
\* getCachedApiKey(K) is answered as a hit only from an entry that cacheApiKey
\* wrote for K, and a getCachedToken(T) or verifyToken(T) only ever reads an
\* entry that cacheToken wrote (a token record), never an API key.
KeysNeverCollide ==
  \A c \in Calls :
    (Did(c, "got") /\ ~IsErr(Got(c).err) /\ Got(c).hit) =>
      /\ call[c].op \in {"verifyApiKey", "getCachedApiKey"} =>
           Got(c).value = Raw(call[c].args.apiKey)
      /\ call[c].op \in {"verifyToken", "getCachedToken"} =>
           Parses(Got(c).value)

\* C15: when the value stored under a token's key does not deserialize,
\* getCachedToken calls back once, with the deserialization error, and stops:
\* nothing follows the callback, and no exception leaves the store's get
\* callback.
UnparsableValueStops ==
  \A c \in Calls :
    (/\ call[c].op = "getCachedToken" /\ Done(c)
     /\ ~IsErr(Got(c).err) /\ Got(c).hit /\ ~Parses(Got(c).value)) =>
      /\ Len(Sel(c, "cb")) = 1
      /\ TheCb(c).err = ParseErr
      /\ ~Did(c, "throw")
      /\ call[c].log[Len(call[c].log)].e = "cb"

\* C16: the result a token-producing operation (a grant, refreshToken,
\* verifyToken after a miss) delivers after caching is the target's result as
\* the target returned it, with no cached_at field.
DeliveredResultUnmutated ==
  \A c \in Calls :
    (/\ call[c].op \in IssuingOps \cup {"verifyToken"}
     /\ Done(c) /\ Did(c, "set")) =>
      /\ ~IsErr(TheCb(c).err)
      /\ ~Has(TheCb(c).res.v, "cached_at")
      /\ call[c].op \in IssuingOps => TheCb(c).res = Answer(c).res

\* C17: in verifyApiKey, when the store's get answers with an error the caller
\* is called back at once with (error, false), and when it answers with a
\* value, with (null, true); in both cases the call does nothing else: no
\* target call, no store write.  The target is reached only after a get that
\* answered with neither an error nor a value.
ApiKeyReadDecides ==
  /\ [](\A c \in Calls :
          (call[c].op = "verifyApiKey" /\ Did(c, "got")) =>
            /\ IsErr(Got(c).err) =>
                 /\ Done(c)
                 /\ call[c].log =
                      <<GetEv("apiKey:" \o call[c].args.apiKey),
                        Got(c), Cb(Got(c).err, Bool(FALSE))>>
            /\ (~IsErr(Got(c).err) /\ Got(c).hit) =>
                 /\ Done(c)
                 /\ call[c].log =
                      <<GetEv("apiKey:" \o call[c].args.apiKey),
                        Got(c), Cb(Null, Bool(TRUE))>>
            /\ Did(c, "target") => (~IsErr(Got(c).err) /\ ~Got(c).hit))
  /\ [][\A c \in Calls :
          (call[c].op = "verifyApiKey" /\ call[c].pc = "get" /\ call'[c].pc = "done") =>
            store' = store]_vars

\* the read of a cached API key failed and the caller got (error, false)
ApiKeyReadFailed ==
  \E c \in Calls :
    /\ Done(c) /\ call[c].op = "verifyApiKey"
    /\ Got(c).err = StoreErr
    /\ TheCb(c) = Cb(StoreErr, Bool(FALSE))
    /\ Live(store, ApiKeyKey(call[c].args.apiKey), now)

\* C18: given that the store and the target answer every call made to them,
\* every operation that has been started and waits for the store or the target
\* eventually calls its caller back, once; and an operation asks the store at
\* most once and the target at most once (no retry, no loop).
EveryCallAnswered ==
  /\ [](\A c \in Calls :
          /\ Len(Sel(c, "get")) <= 1 /\ Len(Sel(c, "got")) <= 1
          /\ Len(Sel(c, "target")) <= 1 /\ Len(Sel(c, "answer")) <= 1)
  /\ \A c \in Serial :
       (call[c].pc \notin {"idle", "done"}) ~> (Done(c) /\ Len(Sel(c, "cb")) = 1)

\* a verification went to the store, then to the target, and has called back
\* with the target's error
AnsweredAfterStoreAndTarget ==
  \E c \in Serial :
    /\ Done(c) /\ call[c].op = "verifyToken"
    /\ Did(c, "got") /\ Did(c, "answer") /\ IsErr(Answer(c).err)
    /\ Len(Sel(c, "cb")) = 1

\* C19: with entries evicted as soon as their TTL has elapsed, a cache hit for
\* a token that was cached with a numeric expires_in (0 included) hands the
\* caller a strictly positive residual expires_in.
HitHasPositiveResidual ==
  \A c \in Calls :
    (/\ call[c].op \in {"getCachedToken", "verifyToken"} /\ Done(c)
     /\ TokenHit(c) /\ Has(Parse(Got(c).value), "expires_in")
     /\ ~IsErr(TheCb(c).err)) =>
      TheCb(c).res.v.expires_in > 0

\* C20: a read that is answered from the cache leaves the store as it was: a
\* verifyToken hit (successful or refused with invalid_scope), a
\* getCachedToken and a verifyApiKey hit log no set and no delete and do not
\* change the store.  The store changes only when time evicts, when a call
\* writes through cacheToken / cacheApiKey (called directly, or after the
\* target answered without an error), or when invalidateToken deletes.
HitsLeaveStoreAlone ==
  /\ [](\A c \in Calls :
          /\ (/\ call[c].op \in {"verifyToken", "getCachedToken",
                                  "verifyApiKey", "getCachedApiKey"}
              /\ Done(c) /\ ~Did(c, "target")) =>
               (~Did(c, "set") /\ ~Did(c, "set_throws") /\ ~Did(c, "delete"))
          /\ Did(c, "set") =>
               \/ call[c].op \in {"cacheToken", "cacheApiKey"}
               \/ /\ Did(c, "answer") /\ ~IsErr(Answer(c).err)
                  /\ Pos(c, "answer") < Pos(c, "set")
          /\ Did(c, "delete") => call[c].op = "invalidateToken")
  /\ [][\A c \in Calls :
          (/\ call[c].pc = "get" /\ call'[c].pc = "done") => store' = store]_vars
  /\ [][store' # store =>
          \/ now' # now /\ store' = Evict(store, now')
          \/ \E c \in Calls :
               LET old == call[c].log
                   new == call'[c].log
               IN /\ call[c].pc # "done" /\ call'[c].pc # "idle"
                  /\ \E i \in 1..Len(new) :
                       /\ new[i].e \in {"set", "delete"}
                       /\ i > (IF call[c].pc = "idle" THEN 0 ELSE Len(old))]_vars

\* an entry refused for its scope is still there, unchanged since it was
\* written
RefusedHitKeptEntry ==
  \E c \in Calls :
    /\ Done(c) /\ call[c].op = "verifyToken" /\ TokenHit(c)
    /\ IsErr(TheCb(c).err) /\ TheCb(c).err.message = "invalid_scope"
    /\ Has(store, call[c].args.token)
    /\ store[call[c].args.token].value = Got(c).value
    /\ store[call[c].args.token].at < now

====
